---- MODULE Spec2Model ----
(***************************************************************************)
(* Workspace loading of dagster/cli/workspace/load.py: a workspace         *)
(* document is resolved, entry by entry, into repository location handles, *)
(* and the workspaces of several documents are merged by location name.    *)
(*                                                                         *)
(* Python values are represented as follows.  A dict is a record that has  *)
(* exactly the keys that are present, so `k in d` is k \in DOMAIN d and    *)
(* d.get(k) is Get(d, k).  A string given where a dict may also be given   *)
(* (the shorthand of a target) is the record [str |-> s].  None is the     *)
(* string None for string values, NoPort for an int and NoPath for a path; *)
(* a path is the sequence of its components, "/" first when absolute.      *)
(* A call of a collaborator (target loader, autodiscovery, remote lister)  *)
(* is logged as a record in the result's calls, and what the collaborator  *)
(* answers is the env argument, which the specifications choose.           *)
(***************************************************************************)
EXTENDS Integers, Sequences, FiniteSets, TLC

VARIABLES
    yaml_docs,          \* workspace_configs, one per yaml path (line 30)
    pc,                 \* position of the loader
    doc_i,              \* index of the document load_workspace_from_config works on
    location_handles,   \* location_handles of the current document (line 67)
    workspaces,         \* the Workspace of every document resolved so far (line 31)
    merged_workspace,   \* what load_workspace_from_yaml_paths returns (line 44)
    error,              \* the exception that ended the load, or None
    resolved,           \* history: <<document, entry>> of every resolution attempt
    entry_i,            \* index of the load_from entry the loop is at (line 68)
    entry,              \* input of one _location_handle_from_location_config call
    result              \* what that call returned or raised

vars == <<yaml_docs, pc, doc_i, location_handles, workspaces, merged_workspace,
          error, resolved, entry_i, entry, result>>

-----------------------------------------------------------------------------
(* Bounds *)

MaxRepos == 2       \* repositories one enumeration returns
MaxDocs == 2        \* yaml paths of one load
MaxEntries == 2     \* load_from entries of one document

-----------------------------------------------------------------------------
(* Python values *)

None == "<None>"
NoPort == -1
NoPath == << >>
EmptyDict == [k \in {} |-> None]

Get(d, k) == IF k \in DOMAIN d THEN d[k] ELSE None
GetInt(d, k) == IF k \in DOMAIN d THEN d[k] ELSE NoPort
GetPath(d, k) == IF k \in DOMAIN d THEN d[k] ELSE NoPath

\* truthiness: `if x`, `not x`, `x or y`, `x and y` on an optional value
Truthy(s) == s # None /\ s # ""
TruthyInt(n) == n # NoPort /\ n # 0
TruthyPath(p) == p # NoPath

Digits == <<"0", "1", "2", "3", "4", "5", "6", "7", "8", "9">>

\* '{}'.format(n) of a non-negative int
RECURSIVE IntToStr(_)
IntToStr(n) ==
    IF n < 10 THEN Digits[n + 1] ELSE IntToStr(n \div 10) \o Digits[(n % 10) + 1]

HomeDir == <<"/", "home", "user">>

\* os.path.expanduser: a leading "~" component becomes the home directory
expanduser(path) ==
    IF Len(path) > 0 /\ path[1] = "~" THEN HomeDir \o Tail(path) ELSE path

\* rebase_file: a relative path is taken from the directory of the anchor
rebase_file(relative_path, anchor) ==
    IF Len(relative_path) > 0 /\ relative_path[1] = "/"
    THEN relative_path
    ELSE SubSeq(anchor, 1, Len(anchor) - 1) \o relative_path

-----------------------------------------------------------------------------
(* Results of a resolution: a handle, or the exception raised; with the     *)
(* collaborator calls made on the way.                                      *)

CheckError == "CheckError"                                  \* check.invariant, check.failed
AmbiguousLocationName == "DagsterInvariantViolationError"   \* line 180
StopIteration == "StopIteration"                            \* next(iter({}))
NotImplementedError == "NotImplementedCheckError"           \* check.not_implemented
LoadError == "LoadError"                                    \* target loader / autodiscovery failed
RemoteError == "RemoteError"                                \* remote lister failed

Ok(handle, calls) == [error |-> None, handle |-> handle, calls |-> calls]
Raise(err, calls) == [error |-> err, calls |-> calls]

-----------------------------------------------------------------------------
(* Code pointers and handle constructors *)

CodePointer_from_python_file(python_file, attribute, working_directory) ==
    [tag |-> "file", python_file |-> python_file, attribute |-> attribute,
     working_directory |-> working_directory]

CodePointer_from_module(module_name, attribute) ==
    [tag |-> "module", module_name |-> module_name, attribute |-> attribute]

CodePointer_from_python_package(package_name, attribute) ==
    [tag |-> "package", package_name |-> package_name, attribute |-> attribute]

CodePointer_from_legacy_repository_yaml(yaml_path) ==
    [tag |-> "legacy", yaml_path |-> yaml_path]

\* the api keyword left out of a constructor call: the constructor's default applies
ApiNotPassed == "<default>"

create_out_of_process_location(repository_code_pointer_dict, location_name, api) ==
    [strategy |-> "OutOfProcess",
     location_name |-> location_name,
     repository_code_pointer_dict |-> repository_code_pointer_dict,
     api |-> api]

create_python_env_location(executable_path, location_name, repository_code_pointer_dict, api) ==
    [strategy |-> "PythonEnvironment",
     executable_path |-> executable_path,
     location_name |-> location_name,
     repository_code_pointer_dict |-> repository_code_pointer_dict,
     api |-> api]

create_grpc_server_location(port, socket, host, location_name) ==
    [strategy |-> "GrpcServer", port |-> port, socket |-> socket, host |-> host,
     location_name |-> location_name]

IN_PROCESS_NAME == "<<in_process>>"

\* loads the repository the pointer names, in process, to learn its name
create_in_process_location(pointer, env) ==
    LET calls == <<[fn |-> "repository_def_from_pointer", pointer |-> pointer]>>
    IN  IF ~env.load_ok
        THEN Raise(LoadError, calls)
        ELSE Ok([strategy |-> "InProcess",
                 location_name |-> IN_PROCESS_NAME,
                 repository_code_pointer_dict |->
                     [n \in {env.loaded_name} |-> pointer]],
                calls)

-----------------------------------------------------------------------------
(* Collaborators.  env.load_ok / env.loaded_name: whether loading the named *)
(* attribute succeeds and the name the loaded repository reports;           *)
(* env.list_ok / env.targets: whether enumeration succeeds and the          *)
(* (attribute, repository_name) pairs it returns.                           *)

load_def_in_module(module_name, attribute, env) ==
    [call |-> [fn |-> "load_def_in_module", module_name |-> module_name,
               attribute |-> attribute],
     ok |-> env.load_ok, name |-> env.loaded_name]

load_def_in_package(package_name, attribute, env) ==
    [call |-> [fn |-> "load_def_in_package", package_name |-> package_name,
               attribute |-> attribute],
     ok |-> env.load_ok, name |-> env.loaded_name]

load_def_in_python_file(python_file, attribute, working_directory, env) ==
    [call |-> [fn |-> "load_def_in_python_file", python_file |-> python_file,
               attribute |-> attribute, working_directory |-> working_directory],
     ok |-> env.load_ok, name |-> env.loaded_name]

loadable_targets_from_python_module(module_name, env) ==
    [call |-> [fn |-> "loadable_targets_from_python_module",
               module_name |-> module_name],
     ok |-> env.list_ok, targets |-> env.targets]

loadable_targets_from_python_package(package_name, env) ==
    [call |-> [fn |-> "loadable_targets_from_python_package",
               package_name |-> package_name],
     ok |-> env.list_ok, targets |-> env.targets]

loadable_targets_from_python_file(python_file, working_directory, env) ==
    [call |-> [fn |-> "loadable_targets_from_python_file",
               python_file |-> python_file,
               working_directory |-> working_directory],
     ok |-> env.list_ok, targets |-> env.targets]

\* The attribute the loop `for loadable_target in loadable_targets:
\*     d[loadable_target.target_definition.name] = pointer(loadable_target.attribute)`
\* leaves under each key: a later store under the same name wins.
AttributeByRepositoryName(loadable_targets) ==
    [n \in {loadable_targets[i].repository_name : i \in DOMAIN loadable_targets} |->
        LET last == CHOOSE i \in DOMAIN loadable_targets :
                        /\ loadable_targets[i].repository_name = n
                        /\ \A j \in DOMAIN loadable_targets :
                               loadable_targets[j].repository_name = n => j <= i
        IN  loadable_targets[last].attribute]

\* The keys of the comprehension {lrs.attribute: pointer(lrs.attribute) for lrs in symbols}
SymbolAttributes(repository_symbols) ==
    {repository_symbols[i].attribute : i \in DOMAIN repository_symbols}

-----------------------------------------------------------------------------
(* Naming *)

\* variant: the repositories are counted before the explicit name is looked at
assign_location_name_counts_first(location_name, repository_code_pointer_dict) ==
    IF Cardinality(DOMAIN repository_code_pointer_dict) > 1
    THEN [error |-> AmbiguousLocationName, name |-> None]
    ELSE IF Truthy(location_name)
    THEN [error |-> None, name |-> location_name]
    ELSE IF DOMAIN repository_code_pointer_dict = {}
    THEN [error |-> StopIteration, name |-> None]
    ELSE [error |-> None, name |-> CHOOSE k \in DOMAIN repository_code_pointer_dict : TRUE]

assign_location_name(location_name, repository_code_pointer_dict) ==
    IF Truthy(location_name)
    THEN [error |-> None, name |-> location_name]
    ELSE IF Cardinality(DOMAIN repository_code_pointer_dict) > 1
    THEN [error |-> AmbiguousLocationName, name |-> None]
    ELSE IF DOMAIN repository_code_pointer_dict = {}
    THEN [error |-> StopIteration, name |-> None]
    ELSE [error |-> None, name |-> CHOOSE k \in DOMAIN repository_code_pointer_dict : TRUE]

\* variant: the host is left out of the synthesized name
_assign_grpc_location_name_without_host(port, socket, host) ==
    "grpc:" \o (IF Truthy(socket) THEN socket ELSE IntToStr(port))

_assign_grpc_location_name(port, socket, host) ==
    "grpc:" \o host \o ":" \o (IF Truthy(socket) THEN socket ELSE IntToStr(port))

-----------------------------------------------------------------------------
(* Bare targets: python_module, python_package, python_file *)

_get_module_config_data(python_module_config) ==
    IF "str" \in DOMAIN python_module_config
    THEN [module_name |-> python_module_config.str, attribute |-> None,
          location_name |-> None]
    ELSE [module_name |-> python_module_config.module_name,
          attribute |-> Get(python_module_config, "attribute"),
          location_name |-> Get(python_module_config, "location_name")]

\* variant: the module is enumerated even when an attribute is given
location_handle_from_module_name_enumerating(module_name, attribute, api, location_name, env) ==
    LET found == loadable_targets_from_python_module(module_name, env)
        calls == <<found.call>>
        attrs == AttributeByRepositoryName(found.targets)
        repository_code_pointer_dict ==
            [n \in DOMAIN attrs |-> CodePointer_from_module(module_name, attrs[n])]
        named == assign_location_name(location_name, repository_code_pointer_dict)
    IN  IF ~found.ok THEN Raise(LoadError, calls)
        ELSE IF named.error # None THEN Raise(named.error, calls)
        ELSE Ok(create_out_of_process_location(repository_code_pointer_dict,
                                               named.name, api), calls)

location_handle_from_module_name(module_name, attribute, api, location_name, env) ==
    LET loaded == load_def_in_module(module_name, attribute, env)
        found == loadable_targets_from_python_module(module_name, env)
        calls == IF Truthy(attribute) THEN <<loaded.call>> ELSE <<found.call>>
        ok == IF Truthy(attribute) THEN loaded.ok ELSE found.ok
        loadable_targets ==
            IF Truthy(attribute)
            THEN <<[attribute |-> attribute, repository_name |-> loaded.name]>>
            ELSE found.targets
        attrs == AttributeByRepositoryName(loadable_targets)
        repository_code_pointer_dict ==
            [n \in DOMAIN attrs |-> CodePointer_from_module(module_name, attrs[n])]
        named == assign_location_name(location_name, repository_code_pointer_dict)
    IN  IF ~ok THEN Raise(LoadError, calls)
        ELSE IF named.error # None THEN Raise(named.error, calls)
        ELSE Ok(create_out_of_process_location(repository_code_pointer_dict,
                                               named.name, api), calls)

_location_handle_from_module_config(python_module_config, api, env) ==
    LET data == _get_module_config_data(python_module_config)
    IN  location_handle_from_module_name(data.module_name, data.attribute, api,
                                         data.location_name, env)

_get_package_config_data(python_package_config) ==
    IF "str" \in DOMAIN python_package_config
    THEN [package_name |-> python_package_config.str, attribute |-> None,
          location_name |-> None]
    ELSE [package_name |-> python_package_config.package_name,
          attribute |-> Get(python_package_config, "attribute"),
          location_name |-> Get(python_package_config, "location_name")]

\* the api argument is checked but not handed to the constructor (lines 168-172)
location_handle_from_package_name(package_name, attribute, api, location_name, env) ==
    LET loaded == load_def_in_package(package_name, attribute, env)
        found == loadable_targets_from_python_package(package_name, env)
        calls == IF Truthy(attribute) THEN <<loaded.call>> ELSE <<found.call>>
        ok == IF Truthy(attribute) THEN loaded.ok ELSE found.ok
        loadable_targets ==
            IF Truthy(attribute)
            THEN <<[attribute |-> attribute, repository_name |-> loaded.name]>>
            ELSE found.targets
        attrs == AttributeByRepositoryName(loadable_targets)
        repository_code_pointer_dict ==
            [n \in DOMAIN attrs |-> CodePointer_from_python_package(package_name, attrs[n])]
        named == assign_location_name(location_name, repository_code_pointer_dict)
    IN  IF ~ok THEN Raise(LoadError, calls)
        ELSE IF named.error # None THEN Raise(named.error, calls)
        ELSE Ok(create_out_of_process_location(repository_code_pointer_dict,
                                               named.name, ApiNotPassed), calls)

_location_handle_from_package_config(python_module_config, api, env) ==
    LET data == _get_package_config_data(python_module_config)
    IN  location_handle_from_package_name(data.package_name, data.attribute, api,
                                          data.location_name, env)

_get_python_file_config_data(python_file_config, yaml_path) ==
    IF "str" \in DOMAIN python_file_config
    THEN [absolute_path |-> rebase_file(python_file_config.str, yaml_path),
          attribute |-> None, location_name |-> None, working_directory |-> NoPath]
    ELSE [absolute_path |-> rebase_file(python_file_config.relative_path, yaml_path),
          attribute |-> Get(python_file_config, "attribute"),
          location_name |-> Get(python_file_config, "location_name"),
          working_directory |->
              IF TruthyPath(GetPath(python_file_config, "working_directory"))
              THEN rebase_file(python_file_config.working_directory, yaml_path)
              ELSE NoPath]

location_handle_from_python_file(python_file, attribute, api, location_name, working_directory, env) ==
    LET loaded == load_def_in_python_file(python_file, attribute, working_directory, env)
        found == loadable_targets_from_python_file(python_file, working_directory, env)
        calls == IF Truthy(attribute) THEN <<loaded.call>> ELSE <<found.call>>
        ok == IF Truthy(attribute) THEN loaded.ok ELSE found.ok
        loadable_targets ==
            IF Truthy(attribute)
            THEN <<[attribute |-> attribute, repository_name |-> loaded.name]>>
            ELSE found.targets
        attrs == AttributeByRepositoryName(loadable_targets)
        repository_code_pointer_dict ==
            [n \in DOMAIN attrs |->
                CodePointer_from_python_file(python_file, attrs[n], working_directory)]
        named == assign_location_name(location_name, repository_code_pointer_dict)
    IN  IF ~ok THEN Raise(LoadError, calls)
        ELSE IF named.error # None THEN Raise(named.error, calls)
        ELSE Ok(create_out_of_process_location(repository_code_pointer_dict,
                                               named.name, api), calls)

location_handle_from_python_file_config(python_file_config, yaml_path, api, env) ==
    LET data == _get_python_file_config_data(python_file_config, yaml_path)
    IN  location_handle_from_python_file(data.absolute_path, data.attribute, api,
                                         data.location_name, data.working_directory, env)

\* a dict with a non-empty python_file, python_module or python_package value
is_target_config(potential_target_config) ==
    \/ "python_file" \in DOMAIN potential_target_config
    \/ "python_module" \in DOMAIN potential_target_config
    \/ "python_package" \in DOMAIN potential_target_config

_location_handle_from_target_config(target_config, yaml_path, api, env) ==
    IF ~is_target_config(target_config) THEN Raise(CheckError, << >>)
    ELSE IF "python_file" \in DOMAIN target_config
    THEN location_handle_from_python_file_config(target_config.python_file, yaml_path, api, env)
    ELSE IF "python_module" \in DOMAIN target_config
    THEN _location_handle_from_module_config(target_config.python_module, api, env)
    ELSE IF "python_package" \in DOMAIN target_config
    THEN _location_handle_from_package_config(target_config.python_package, api, env)
    ELSE Raise(CheckError, << >>)

-----------------------------------------------------------------------------
(* grpc_server *)

\* variant: a port together with a socket is let through
_location_handle_from_grpc_server_config_either(grpc_server_config, yaml_path) ==
    LET port == GetInt(grpc_server_config, "port")
        socket == Get(grpc_server_config, "socket")
        host == Get(grpc_server_config, "host")
        location_name == Get(grpc_server_config, "location_name")
        host1 == IF ~Truthy(host) THEN "localhost" ELSE host
        location_name1 ==
            IF ~Truthy(location_name)
            THEN _assign_grpc_location_name(port, socket, host1)
            ELSE location_name
    IN  IF ~(Truthy(socket) \/ TruthyInt(port))
        THEN Raise(CheckError, << >>)
        ELSE Ok(create_grpc_server_location(port, socket, host1, location_name1), << >>)

_location_handle_from_grpc_server_config(grpc_server_config, yaml_path) ==
    LET port == GetInt(grpc_server_config, "port")
        socket == Get(grpc_server_config, "socket")
        host == Get(grpc_server_config, "host")
        location_name == Get(grpc_server_config, "location_name")
        host1 == IF ~Truthy(host) THEN "localhost" ELSE host
        location_name1 ==
            IF ~Truthy(location_name)
            THEN _assign_grpc_location_name(port, socket, host1)
            ELSE location_name
    IN  IF ~(/\ (Truthy(socket) \/ TruthyInt(port))
             /\ ~(Truthy(socket) /\ TruthyInt(port)))
        THEN Raise(CheckError, << >>)
        ELSE Ok(create_grpc_server_location(port, socket, host1, location_name1), << >>)

-----------------------------------------------------------------------------
(* python_environment *)

\* variant: the plain-subprocess lister whatever the api
_list_repositories_always_cli(executable_path, python_file, module_name, working_directory, api, env) ==
    [call |-> [fn |-> "sync_list_repositories",
               executable_path |-> executable_path,
               python_file |-> python_file,
               module_name |-> module_name,
               working_directory |-> working_directory],
     ok |-> env.list_ok, repository_symbols |-> env.targets]

_list_repositories(executable_path, python_file, module_name, working_directory, api, env) ==
    [call |-> [fn |-> IF api = "GRPC"
                      THEN "sync_list_repositories_ephemeral_grpc"
                      ELSE "sync_list_repositories",
               executable_path |-> executable_path,
               python_file |-> python_file,
               module_name |-> module_name,
               working_directory |-> working_directory],
     ok |-> env.list_ok, repository_symbols |-> env.targets]

_location_handle_from_python_environment_config(python_environment_config, yaml_path, api, env) ==
    LET executable_path == expanduser(python_environment_config.executable_path)
        target_config == python_environment_config.target
    IN  IF ~is_target_config(target_config) THEN Raise(CheckError, << >>)
        ELSE IF "python_file" \in DOMAIN target_config
        THEN LET data == _get_python_file_config_data(target_config.python_file, yaml_path)
                 response == _list_repositories(executable_path, data.absolute_path,
                                                None, NoPath, api, env)
             IN  IF ~Truthy(data.attribute)
                 THEN IF ~response.ok THEN Raise(RemoteError, <<response.call>>)
                      ELSE Ok(create_python_env_location(
                                  executable_path, data.location_name,
                                  [a \in SymbolAttributes(response.repository_symbols) |->
                                      CodePointer_from_python_file(
                                          data.absolute_path, a, data.working_directory)],
                                  api),
                              <<response.call>>)
                 ELSE Ok(create_python_env_location(
                             executable_path, data.location_name,
                             [a \in {data.attribute} |->
                                 CodePointer_from_python_file(
                                     data.absolute_path, a, data.working_directory)],
                             api),
                         << >>)
        ELSE IF "python_module" \in DOMAIN target_config
        THEN LET data == _get_module_config_data(target_config.python_module)
                 response == _list_repositories(executable_path, NoPath,
                                                data.module_name, NoPath, api, env)
             IN  IF ~Truthy(data.attribute)
                 THEN IF ~response.ok THEN Raise(RemoteError, <<response.call>>)
                      ELSE Ok(create_python_env_location(
                                  executable_path, data.location_name,
                                  [a \in SymbolAttributes(response.repository_symbols) |->
                                      CodePointer_from_module(data.module_name, a)],
                                  api),
                              <<response.call>>)
                 ELSE Ok(create_python_env_location(
                             executable_path, data.location_name,
                             [a \in {data.attribute} |->
                                 CodePointer_from_module(data.module_name, a)],
                             api),
                         << >>)
        ELSE LET data == _get_package_config_data(target_config.python_package)
                 response == _list_repositories(executable_path, NoPath,
                                                data.package_name, NoPath, api, env)
             IN  IF ~Truthy(data.attribute)
                 THEN IF ~response.ok THEN Raise(RemoteError, <<response.call>>)
                      ELSE Ok(create_python_env_location(
                                  executable_path, data.location_name,
                                  [a \in SymbolAttributes(response.repository_symbols) |->
                                      CodePointer_from_python_package(data.package_name, a)],
                                  api),
                              <<response.call>>)
                 ELSE Ok(create_python_env_location(
                             executable_path, data.location_name,
                             [a \in {data.attribute} |->
                                 CodePointer_from_python_package(data.package_name, a)],
                             api),
                         << >>)

-----------------------------------------------------------------------------
(* One location entry *)

ApiOf(opt_ins) == IF "grpc" \in opt_ins THEN "GRPC" ELSE "CLI"

_location_handle_from_location_config(location_config, yaml_path, opt_ins, env) ==
    LET api == ApiOf(opt_ins)
    IN  IF is_target_config(location_config)
        THEN _location_handle_from_target_config(location_config, yaml_path, api, env)
        ELSE IF "grpc_server" \in DOMAIN location_config
        THEN _location_handle_from_grpc_server_config(location_config.grpc_server, yaml_path)
        ELSE IF "python_environment" \in DOMAIN location_config
        THEN _location_handle_from_python_environment_config(
                 location_config.python_environment, yaml_path, api, env)
        ELSE Raise(NotImplementedError, << >>)

-----------------------------------------------------------------------------
(* Workspaces *)

\* Workspace(handles): the handles keyed by location_name, a later one winning
Workspace(repository_location_handles) ==
    [location_handle_dict |->
        [n \in {repository_location_handles[i].location_name :
                    i \in DOMAIN repository_location_handles} |->
            LET last == CHOOSE i \in DOMAIN repository_location_handles :
                    /\ repository_location_handles[i].location_name = n
                    /\ \A j \in DOMAIN repository_location_handles :
                           repository_location_handles[j].location_name = n => j <= i
            IN  repository_location_handles[last]]]

repository_location_names(workspace) == DOMAIN workspace.location_handle_dict
get_repository_location_handle(workspace, name) == workspace.location_handle_dict[name]

\* variant: a name already in the dict keeps its handle
RECURSIVE MergeHandles_first_wins(_, _)
MergeHandles_first_wins(repository_location_handles_dict, remaining) ==
    IF remaining = << >> THEN repository_location_handles_dict
    ELSE LET workspace == Head(remaining)
             names == repository_location_names(workspace)
         IN  MergeHandles_first_wins(
                 [n \in DOMAIN repository_location_handles_dict \cup names |->
                     IF n \in DOMAIN repository_location_handles_dict
                     THEN repository_location_handles_dict[n]
                     ELSE get_repository_location_handle(workspace, n)],
                 Tail(remaining))

\* the loop of lines 36-41: every name of every workspace, in order, stored in the dict
RECURSIVE MergeHandles(_, _)
MergeHandles(repository_location_handles_dict, remaining) ==
    IF remaining = << >> THEN repository_location_handles_dict
    ELSE LET workspace == Head(remaining)
             names == repository_location_names(workspace)
         IN  MergeHandles(
                 [n \in DOMAIN repository_location_handles_dict \cup names |->
                     IF n \in names
                     THEN get_repository_location_handle(workspace, n)
                     ELSE repository_location_handles_dict[n]],
                 Tail(remaining))

\* list(d.values())
RECURSIVE DictValues(_)
DictValues(d) ==
    IF DOMAIN d = {} THEN << >>
    ELSE LET k == CHOOSE k \in DOMAIN d : TRUE
         IN  <<d[k]>> \o DictValues([j \in DOMAIN d \ {k} |-> d[j]])

NotReturned == [returned |-> FALSE]

-----------------------------------------------------------------------------
(* Inputs *)

YamlPath == <<"/", "ws", "dev.yaml">>

Attributes == {"repo_a", "repo_b", "repo_c"}
RepositoryNames == {"repo_a", "prod"}

\* a key that is absent, or present with one of the values
Optional(k, values) == {EmptyDict} \cup {k :> v : v \in values}

ModuleConfigs ==
    {[str |-> "pkg.repo"]} \cup
    {[module_name |-> "pkg.repo"] @@ a @@ l :
        a \in Optional("attribute", {"", "repo_a"}),
        l \in Optional("location_name", {"", "loc"})}

PackageConfigs ==
    {[str |-> "pkg"]} \cup
    {[package_name |-> "pkg"] @@ a @@ l :
        a \in Optional("attribute", {"repo_a"}), l \in Optional("location_name", {"loc"})}

FileConfigs ==
    {[str |-> <<"repo.py">>]} \cup
    {[relative_path |-> <<"repo.py">>] @@ a @@ l @@ w :
        a \in Optional("attribute", {"repo_a"}), l \in Optional("location_name", {"loc"}),
        w \in Optional("working_directory", {<<"wd">>})}

TargetConfigs ==
    {[python_file |-> c] : c \in FileConfigs} \cup
    {[python_module |-> c] : c \in ModuleConfigs} \cup
    {[python_package |-> c] : c \in PackageConfigs}

GrpcServerConfigs ==
    {p @@ s @@ h @@ l :
        p \in Optional("port", {0, 4000}),
        s \in Optional("socket", {"", "/tmp/grpc.sock"}),
        h \in Optional("host", {"", "example.org"}),
        l \in Optional("location_name", {"loc"})}

ExecutablePaths == {<<"~", "venv", "bin", "python">>, <<"/", "usr", "bin", "python">>}

PythonEnvironmentConfigs ==
    {[executable_path |-> e, target |-> t] :
        e \in ExecutablePaths, t \in TargetConfigs \cup {[pipeline |-> "p"]}}

LocationConfigs ==
    TargetConfigs \cup
    {[grpc_server |-> c] : c \in GrpcServerConfigs} \cup
    {[python_environment |-> c] : c \in PythonEnvironmentConfigs} \cup
    {[kubernetes |-> "k"]}

OptIns == {{}, {"grpc"}}

LoadableTargets == [attribute : Attributes, repository_name : RepositoryNames]

\* what one enumeration can return: some targets, each under its own attribute
TargetLists ==
    {t \in UNION {[1..n -> LoadableTargets] : n \in 1..MaxRepos} :
        \A i, j \in DOMAIN t : i # j => t[i].attribute # t[j].attribute}

LoadOutcomes ==
    {[load_ok |-> FALSE, loaded_name |-> None]} \cup
    {[load_ok |-> TRUE, loaded_name |-> n] : n \in RepositoryNames}

ListOutcomes ==
    {[list_ok |-> FALSE, targets |-> << >>]} \cup
    {[list_ok |-> TRUE, targets |-> t] : t \in TargetLists}

Envs == {l @@ t : l \in LoadOutcomes, t \in ListOutcomes}

-----------------------------------------------------------------------------
(* SpecEntry: one call of _location_handle_from_location_config *)

Pending == [pending |-> TRUE]

InitEntry ==
    /\ entry \in [location_config : LocationConfigs, yaml_path : {YamlPath},
                  opt_ins : OptIns, env : Envs]
    /\ result = Pending
    /\ pc = "entry"
    /\ yaml_docs = << >>
    /\ doc_i = 1
    /\ entry_i = 1
    /\ location_handles = << >>
    /\ workspaces = << >>
    /\ merged_workspace = NotReturned
    /\ error = None
    /\ resolved = << >>

ResolveLocationConfig ==
    /\ pc = "entry"
    /\ result' = _location_handle_from_location_config(
                     entry.location_config, entry.yaml_path, entry.opt_ins, entry.env)
    /\ pc' = "returned"
    /\ UNCHANGED <<yaml_docs, doc_i, entry_i, location_handles, workspaces,
                   merged_workspace, error, resolved, entry>>

NextEntry == ResolveLocationConfig

SpecEntry == InitEntry /\ [][NextEntry]_vars

-----------------------------------------------------------------------------
(* Spec: load_workspace_from_yaml_paths over whole documents *)

\* the location entries the documents of Spec are made of
WorkspaceEntries ==
    {[python_module |-> [module_name |-> "pkg.repo", attribute |-> "repo_a"]],
     [grpc_server |-> [port |-> 4000]]}

\* what the target loader answers in Spec (these entries enumerate nothing)
WorkspaceEnvs == {l @@ [list_ok |-> FALSE, targets |-> << >>] : l \in LoadOutcomes}

LoadFroms == UNION {[1..n -> WorkspaceEntries] : n \in 0..MaxEntries}

WorkspaceConfigs ==
    {[repository |-> "legacy"]} \cup
    {o @@ [load_from |-> l] : o \in Optional("opt_in", {{"grpc"}}), l \in LoadFroms}

Init ==
    /\ yaml_docs \in UNION {[1..n -> WorkspaceConfigs] : n \in 0..MaxDocs}
    /\ pc = "config"
    /\ doc_i = 1
    /\ entry_i = 1
    /\ location_handles = << >>
    /\ workspaces = << >>
    /\ merged_workspace = NotReturned
    /\ error = None
    /\ resolved = << >>
    /\ entry = Pending
    /\ result = Pending

\* set(workspace_config.get('opt_in') if workspace_config.get('opt_in') else [])
opt_ins_of(workspace_config) ==
    IF "opt_in" \in DOMAIN workspace_config /\ workspace_config.opt_in # {}
    THEN workspace_config.opt_in
    ELSE {}

\* load_workspace_from_config on a legacy document (lines 51-63)
LegacyRepository ==
    /\ pc = "config"
    /\ doc_i <= Len(yaml_docs)
    /\ "repository" \in DOMAIN yaml_docs[doc_i]
    /\ \E env \in WorkspaceEnvs :
         LET r == create_in_process_location(
                      CodePointer_from_legacy_repository_yaml(YamlPath), env)
         IN  IF r.error # None
             THEN /\ pc' = "failed"
                  /\ error' = r.error
                  /\ UNCHANGED <<workspaces, doc_i>>
             ELSE /\ workspaces' = Append(workspaces, Workspace(<<r.handle>>))
                  /\ doc_i' = doc_i + 1
                  /\ UNCHANGED <<pc, error>>
    /\ UNCHANGED <<yaml_docs, entry_i, location_handles, merged_workspace, resolved,
                   entry, result>>

\* load_workspace_from_config reaches its loop (lines 65-67)
BeginLoadFrom ==
    /\ pc = "config"
    /\ doc_i <= Len(yaml_docs)
    /\ "repository" \notin DOMAIN yaml_docs[doc_i]
    /\ location_handles' = << >>
    /\ entry_i' = 1
    /\ pc' = "load_from"
    /\ UNCHANGED <<yaml_docs, doc_i, workspaces, merged_workspace, error, resolved,
                   entry, result>>

\* variant: an entry that fails is skipped and the loop goes on
ResolveLocation_skipping_failures ==
    /\ pc = "load_from"
    /\ entry_i <= Len(yaml_docs[doc_i].load_from)
    /\ \E env \in WorkspaceEnvs :
         LET r == _location_handle_from_location_config(
                      yaml_docs[doc_i].load_from[entry_i], YamlPath,
                      opt_ins_of(yaml_docs[doc_i]), env)
         IN  /\ resolved' = Append(resolved,
                     [doc |-> doc_i, entry |-> entry_i, error |-> r.error])
             /\ location_handles' =
                    IF r.error # None THEN location_handles
                    ELSE Append(location_handles, r.handle)
             /\ entry_i' = entry_i + 1
             /\ UNCHANGED <<pc, error>>
    /\ UNCHANGED <<yaml_docs, doc_i, workspaces, merged_workspace, entry, result>>

\* one iteration of the loop (lines 68-71); an exception leaves the loader
ResolveLocation ==
    /\ pc = "load_from"
    /\ entry_i <= Len(yaml_docs[doc_i].load_from)
    /\ \E env \in WorkspaceEnvs :
         LET r == _location_handle_from_location_config(
                      yaml_docs[doc_i].load_from[entry_i], YamlPath,
                      opt_ins_of(yaml_docs[doc_i]), env)
         IN  /\ resolved' = Append(resolved,
                     [doc |-> doc_i, entry |-> entry_i, error |-> r.error])
             /\ IF r.error # None
                THEN /\ pc' = "failed"
                     /\ error' = r.error
                     /\ UNCHANGED <<location_handles, entry_i>>
                ELSE /\ location_handles' = Append(location_handles, r.handle)
                     /\ entry_i' = entry_i + 1
                     /\ UNCHANGED <<pc, error>>
    /\ UNCHANGED <<yaml_docs, doc_i, workspaces, merged_workspace, entry, result>>

\* return Workspace(location_handles) (line 73), on to the next yaml path
ReturnWorkspace ==
    /\ pc = "load_from"
    /\ entry_i > Len(yaml_docs[doc_i].load_from)
    /\ workspaces' = Append(workspaces, Workspace(location_handles))
    /\ doc_i' = doc_i + 1
    /\ pc' = "config"
    /\ location_handles' = << >>
    /\ entry_i' = 1
    /\ UNCHANGED <<yaml_docs, merged_workspace, error, resolved, entry, result>>

\* lines 36-45, once every document has its workspace
MergeWorkspaces ==
    /\ pc = "config"
    /\ doc_i > Len(yaml_docs)
    /\ merged_workspace' = Workspace(DictValues(MergeHandles(EmptyDict, workspaces)))
    /\ pc' = "done"
    /\ UNCHANGED <<yaml_docs, doc_i, entry_i, location_handles, workspaces, error,
                   resolved, entry, result>>

Next ==
    \/ LegacyRepository
    \/ BeginLoadFrom
    \/ ResolveLocation
    \/ ReturnWorkspace
    \/ MergeWorkspaces

Spec == Init /\ [][Next]_vars

-----------------------------------------------------------------------------
(* Properties of load_workspace_from_yaml_paths, checked under Spec *)

\* the documents that produced a handle named n, by index
ProducersOf(n) ==
    {i \in DOMAIN workspaces : n \in repository_location_names(workspaces[i])}

LastProducerOf(n) == CHOOSE i \in ProducersOf(n) : \A j \in ProducersOf(n) : j <= i

\* C1: when every document resolves, the merged workspace has exactly the
\* location names of the documents' workspaces, and under each name the handle of
\* the last document, in the supplied order, that produced the name.
C1_MergeLastDocumentWins ==
    pc = "done" =>
        /\ Len(workspaces) = Len(yaml_docs)
        /\ repository_location_names(merged_workspace) =
               UNION {repository_location_names(workspaces[i]) : i \in DOMAIN workspaces}
        /\ \A n \in repository_location_names(merged_workspace) :
               get_repository_location_handle(merged_workspace, n) =
                   get_repository_location_handle(workspaces[LastProducerOf(n)], n)

\* two documents produce different handles under one name; the second one's is kept
C1_Witness ==
    /\ pc = "done"
    /\ Len(workspaces) = 2
    /\ \E n \in repository_location_names(workspaces[1]) \cap
                repository_location_names(workspaces[2]) :
         /\ workspaces[1].location_handle_dict[n] # workspaces[2].location_handle_dict[n]
         /\ merged_workspace.location_handle_dict[n] = workspaces[2].location_handle_dict[n]

\* C10: the entries are resolved one at a time in document order, documents in the
\* supplied order; an entry whose resolution fails is the last one attempted: the
\* load has failed with its error, its document has no Workspace, no merged
\* Workspace is returned and the loader takes no further step.
C10_FailureAbortsLoad ==
    /\ \A k \in DOMAIN resolved :
         /\ k = 1 => resolved[k].entry = 1
         /\ k > 1 =>
              \/ /\ resolved[k].doc = resolved[k - 1].doc
                 /\ resolved[k].entry = resolved[k - 1].entry + 1
              \/ /\ resolved[k].doc > resolved[k - 1].doc
                 /\ resolved[k].entry = 1
                 /\ resolved[k - 1].entry = Len(yaml_docs[resolved[k - 1].doc].load_from)
         /\ resolved[k].error # None =>
              /\ k = Len(resolved)
              /\ pc = "failed"
              /\ error = resolved[k].error
              /\ doc_i = resolved[k].doc
    /\ pc = "failed" =>
         /\ error # None
         /\ Len(workspaces) = doc_i - 1
         /\ merged_workspace = NotReturned
         /\ ~ENABLED Next
    /\ merged_workspace # NotReturned =>
         /\ error = None
         /\ \A d \in DOMAIN yaml_docs :
              "load_from" \in DOMAIN yaml_docs[d] =>
                  \A e \in DOMAIN yaml_docs[d].load_from :
                      \E k \in DOMAIN resolved :
                          /\ resolved[k].doc = d
                          /\ resolved[k].entry = e
                          /\ resolved[k].error = None

\* the first entry of the first of two documents fails, an entry and a document after it
C10_Witness ==
    /\ pc = "failed"
    /\ Len(yaml_docs) = 2
    /\ "load_from" \in DOMAIN yaml_docs[1]
    /\ Len(yaml_docs[1].load_from) = 2
    /\ Len(resolved) = 1
    /\ resolved[1] = [doc |-> 1, entry |-> 1, error |-> LoadError]
    /\ workspaces = << >>

-----------------------------------------------------------------------------
(* Properties of one location entry, checked under SpecEntry *)

Returned == pc = "returned"
HandleProduced == "handle" \in DOMAIN result

IsBareTarget ==
    DOMAIN entry.location_config \cap {"python_file", "python_module", "python_package"} # {}

IsPythonEnvironment == "python_environment" \in DOMAIN entry.location_config

\* the target of the entry: the entry itself, or the target python_environment wraps
TargetOfEntry ==
    IF IsPythonEnvironment
    THEN entry.location_config.python_environment.target
    ELSE entry.location_config

HasTarget ==
    /\ IsBareTarget \/ IsPythonEnvironment
    /\ DOMAIN TargetOfEntry \cap {"python_file", "python_module", "python_package"} # {}

\* the file, module or package reference of the target (a dict, or a shorthand string)
ReferenceOfEntry ==
    LET t == TargetOfEntry
    IN  IF "python_file" \in DOMAIN t THEN t.python_file
        ELSE IF "python_module" \in DOMAIN t THEN t.python_module
        ELSE t.python_package

\* given: present and not empty
AttributeGiven ==
    /\ HasTarget
    /\ "attribute" \in DOMAIN ReferenceOfEntry
    /\ ReferenceOfEntry.attribute # ""

LocationNameGiven ==
    /\ HasTarget
    /\ "location_name" \in DOMAIN ReferenceOfEntry
    /\ ReferenceOfEntry.location_name # ""

\* the names the repositories of the entry's location report about themselves
ReportedNames ==
    IF AttributeGiven
    THEN {entry.env.loaded_name}
    ELSE {entry.env.targets[i].repository_name : i \in DOMAIN entry.env.targets}

\* the collaborator the entry depends on answers
LocationAnswers == IF AttributeGiven THEN entry.env.load_ok ELSE entry.env.list_ok

ExpectedApi == IF "grpc" \in entry.opt_ins THEN "GRPC" ELSE "CLI"

EnumerationFunctions ==
    {"loadable_targets_from_python_file", "loadable_targets_from_python_module",
     "loadable_targets_from_python_package",
     "sync_list_repositories", "sync_list_repositories_ephemeral_grpc"}

InProcessFunctions ==
    {"loadable_targets_from_python_file", "loadable_targets_from_python_module",
     "loadable_targets_from_python_package",
     "load_def_in_python_file", "load_def_in_module", "load_def_in_package",
     "repository_def_from_pointer"}

CalledFunctions == {result.calls[i].fn : i \in DOMAIN result.calls}

C3_KeysAreRepositoryNames ==
    (/\ Returned
     /\ HandleProduced
     /\ HasTarget
     /\ LocationAnswers)
    => DOMAIN result.handle.repository_code_pointer_dict = ReportedNames

\* C4: the handle of a bare target entry carries the Api flag of the document: GRPC
\* when opt_in has 'grpc', CLI otherwise.
C4_BareTargetCarriesApi ==
    (Returned /\ IsBareTarget /\ HandleProduced) => result.handle.api = ExpectedApi

\* set: present and not empty (a port that is not 0)
PortSet(c) == "port" \in DOMAIN c /\ c.port # 0
SocketSet(c) == "socket" \in DOMAIN c /\ c.socket # ""
HostSet(c) == "host" \in DOMAIN c /\ c.host # ""

\* C5: a grpc_server entry yields a handle exactly when one of port and socket is
\* set and the other is not; otherwise it fails with a check error and no handle.
C5_GrpcPortXorSocket ==
    (Returned /\ "grpc_server" \in DOMAIN entry.location_config) =>
        LET c == entry.location_config.grpc_server
        IN  /\ HandleProduced <=> (PortSet(c) # SocketSet(c))
            /\ ~HandleProduced => result.error = CheckError
            /\ HandleProduced => result.error = None

\* both a port and a socket: a check error, no handle
C5_Witness ==
    /\ Returned
    /\ "grpc_server" \in DOMAIN entry.location_config
    /\ PortSet(entry.location_config.grpc_server)
    /\ SocketSet(entry.location_config.grpc_server)
    /\ result.error = CheckError
    /\ ~HandleProduced

\* C6: a bare target entry with a location_name gets that name whatever its
\* repositories are; without one, when its repositories report a single name N,
\* the handle's location_name is N.
C6_LocationNameOfBareTarget ==
    (Returned /\ IsBareTarget /\ LocationAnswers) =>
        /\ LocationNameGiven =>
             /\ HandleProduced
             /\ result.handle.location_name = ReferenceOfEntry.location_name
        /\ (~LocationNameGiven /\ Cardinality(ReportedNames) = 1) =>
             /\ HandleProduced
             /\ \A n \in ReportedNames : result.handle.location_name = n

\* a python_file entry with neither attribute nor location_name whose one
\* repository is named "prod" yields the handle named "prod"
C6_Witness ==
    /\ Returned
    /\ "python_file" \in DOMAIN entry.location_config
    /\ ~AttributeGiven
    /\ ~LocationNameGiven
    /\ entry.env.list_ok
    /\ ReportedNames = {"prod"}
    /\ HandleProduced
    /\ result.handle.location_name = "prod"

PortText(port) == CASE port = 4000 -> "4000" [] port = 0 -> "0"

\* C7: the handle of a grpc_server entry has the configured host, 'localhost'
\* when none is set, and the configured location_name, or when none is given
\* 'grpc:{host}:{socket_or_port}' with the socket when set and else the port.
C7_GrpcLocationName ==
    (Returned /\ "grpc_server" \in DOMAIN entry.location_config /\ HandleProduced) =>
        LET c == entry.location_config.grpc_server
            host == IF HostSet(c) THEN c.host ELSE "localhost"
            socket_or_port == IF SocketSet(c) THEN c.socket ELSE PortText(c.port)
        IN  /\ result.handle.host = host
            /\ result.handle.location_name =
                   IF "location_name" \in DOMAIN c
                   THEN c.location_name
                   ELSE "grpc:" \o host \o ":" \o socket_or_port

\* {port: 4000} alone is named grpc:localhost:4000
C7_Witness ==
    /\ Returned
    /\ entry.location_config = [grpc_server |-> [port |-> 4000]]
    /\ HandleProduced
    /\ result.handle.host = "localhost"
    /\ result.handle.location_name = "grpc:localhost:4000"

\* C8: with an explicit attribute, bare or wrapped, no enumeration is called
\* (neither autodiscovery nor the remote lister) and the handle's mapping has one
\* entry, whose CodePointer carries the given attribute.
C8_ExplicitAttributeSkipsEnumeration ==
    (Returned /\ AttributeGiven) =>
        /\ CalledFunctions \cap EnumerationFunctions = {}
        /\ HandleProduced =>
             LET d == result.handle.repository_code_pointer_dict
             IN  /\ Cardinality(DOMAIN d) = 1
                 /\ \A k \in DOMAIN d : d[k].attribute = ReferenceOfEntry.attribute

\* a bare module entry with an attribute: loaded directly, one pointer
C8_Witness ==
    /\ Returned
    /\ "python_module" \in DOMAIN entry.location_config
    /\ AttributeGiven
    /\ HandleProduced
    /\ CalledFunctions = {"load_def_in_module"}
    /\ Cardinality(DOMAIN result.handle.repository_code_pointer_dict) = 1

ExpandedExecutablePath ==
    LET path == entry.location_config.python_environment.executable_path
    IN  IF path[1] = "~" THEN <<"/", "home", "user">> \o SubSeq(path, 2, Len(path))
        ELSE path

\* C9: resolving a python_environment entry calls neither the in-process loader
\* nor in-process autodiscovery; without an attribute it calls the remote lister
\* exactly once, with the expanded executable path: the ephemeral-RPC lister when
\* the Api flag is GRPC, the plain-subprocess lister otherwise.
C9_PythonEnvironmentStaysRemote ==
    (Returned /\ IsPythonEnvironment) =>
        /\ CalledFunctions \cap InProcessFunctions = {}
        /\ (HasTarget /\ ~AttributeGiven) =>
             /\ Len(result.calls) = 1
             /\ result.calls[1].fn =
                    IF ExpectedApi = "GRPC"
                    THEN "sync_list_repositories_ephemeral_grpc"
                    ELSE "sync_list_repositories"
             /\ result.calls[1].executable_path = ExpandedExecutablePath

\* ~/venv/bin/python with the grpc opt-in: one call of the ephemeral-RPC lister
C9_Witness ==
    /\ Returned
    /\ IsPythonEnvironment
    /\ HasTarget
    /\ ~AttributeGiven
    /\ entry.opt_ins = {"grpc"}
    /\ entry.location_config.python_environment.executable_path[1] = "~"
    /\ Len(result.calls) = 1
    /\ result.calls[1].fn = "sync_list_repositories_ephemeral_grpc"
    /\ result.calls[1].executable_path = <<"/", "home", "user", "venv", "bin", "python">>
    /\ HandleProduced

====
